---- MODULE Spec2Model ----
(***************************************************************************)
(* Model of app.py of webpage-summarizer-bot: the retry decorator, the     *)
(* normalization of the model's response in summerize_text, and the event  *)
(* handler with its TTLCache of processed message ids.                     *)
(***************************************************************************)
EXTENDS Integers, Sequences, FiniteSets, TLC

None == "None"

(***************************************************************************)
(* retry (app.py 31-49)                                                    *)
(*                                                                         *)
(* A wrapper invocation is a record: i is the loop index of               *)
(* `for i in range(total_tries)`, wait_time the local of that name,        *)
(* status the position of the coroutine ("calling": suspended in           *)
(* `await func(...)`, "sleeping": suspended in `await asyncio.sleep`,      *)
(* "returned"/"raised": finished).  calls, outcomes and waits record what  *)
(* the wrapper did: the number of calls of func, the outcome of each call, *)
(* and the argument of each asyncio.sleep.  An exception is the pair of    *)
(* its kind and the number of the call that raised it, so that "the        *)
(* exception of the N-th call" is told apart from those of earlier calls;  *)
(* a result is named by the call that returned it.                         *)
(***************************************************************************)
MaxTries == 4
MaxWait == 2
MaxFactor == 3

Outcomes == {"ok", "retryable", "other"}

RECURSIVE Pow(_, _)
Pow(b, e) == IF e = 0 THEN 1 ELSE b * Pow(b, e - 1)

NoExc == [kind |-> "none", call |-> 0]
NoResult == [of_call |-> 0]

\* Entering wrapper(): wait_time = initial_wait, then the first iteration of
\* the loop calls func.  range(0) is empty: the wrapper falls off its end.
RetryStart(total_tries, initial_wait, backoff_factor) ==
    [total_tries |-> total_tries, initial_wait |-> initial_wait,
     backoff_factor |-> backoff_factor,
     i |-> 0, wait_time |-> initial_wait,
     status |-> IF total_tries = 0 THEN "returned" ELSE "calling",
     calls |-> IF total_tries = 0 THEN 0 ELSE 1,
     outcomes |-> << >>, waits |-> << >>,
     result |-> NoResult, exc |-> NoExc]

\* Mutant of RetryAttemptDone: the last attempt is recognised one iteration
\* late (i == total_tries instead of i == total_tries - 1).
RetryAttemptDoneLate(r, outcome) ==
    LET r1 == [r EXCEPT !.outcomes = Append(@, outcome)] IN
    CASE outcome = "ok" ->
           [r1 EXCEPT !.status = "returned", !.result = [of_call |-> r.calls]]
      [] outcome = "other" ->
           [r1 EXCEPT !.status = "raised", !.exc = [kind |-> "other", call |-> r.calls]]
      [] outcome = "retryable" ->
           IF r.i = r.total_tries
           THEN [r1 EXCEPT !.status = "raised", !.exc = [kind |-> "retryable", call |-> r.calls]]
           ELSE [r1 EXCEPT !.status = "sleeping",
                           !.waits = Append(@, r.wait_time)]

\* Mutant of RetryAttemptDone: `except Exception` instead of
\* `except exceptions`: every failure is treated as retryable.
RetryAttemptDoneCatchAll(r, outcome) ==
    LET r1 == [r EXCEPT !.outcomes = Append(@, outcome)] IN
    CASE outcome = "ok" ->
           [r1 EXCEPT !.status = "returned", !.result = [of_call |-> r.calls]]
      [] OTHER ->
           IF r.i = r.total_tries - 1
           THEN [r1 EXCEPT !.status = "raised", !.exc = [kind |-> outcome, call |-> r.calls]]
           ELSE [r1 EXCEPT !.status = "sleeping",
                           !.waits = Append(@, r.wait_time)]

\* Mutant of RetryAttemptDone: `await func(...)` without `return`: a
\* success is dropped and the loop goes on to its next iteration.
RetryAttemptDoneNoReturn(r, outcome) ==
    LET r1 == [r EXCEPT !.outcomes = Append(@, outcome)] IN
    CASE outcome = "ok" ->
           IF r.i = r.total_tries - 1
           THEN [r1 EXCEPT !.status = "returned"]
           ELSE [r1 EXCEPT !.i = @ + 1, !.calls = @ + 1]
      [] outcome = "other" ->
           [r1 EXCEPT !.status = "raised", !.exc = [kind |-> "other", call |-> r.calls]]
      [] outcome = "retryable" ->
           IF r.i = r.total_tries - 1
           THEN [r1 EXCEPT !.status = "raised", !.exc = [kind |-> "retryable", call |-> r.calls]]
           ELSE [r1 EXCEPT !.status = "sleeping",
                           !.waits = Append(@, r.wait_time)]

\* `await func(...)` finishes (lines 37-44).  "ok": return its result.
\* "other": an exception that `except exceptions` does not match leaves the
\* wrapper.  "retryable": logged; re-raised on the last iteration, otherwise
\* the wrapper goes to sleep for wait_time.
RetryAttemptDone(r, outcome) ==
    LET r1 == [r EXCEPT !.outcomes = Append(@, outcome)] IN
    CASE outcome = "ok" ->
           [r1 EXCEPT !.status = "returned", !.result = [of_call |-> r.calls]]
      [] outcome = "other" ->
           [r1 EXCEPT !.status = "raised", !.exc = [kind |-> "other", call |-> r.calls]]
      [] outcome = "retryable" ->
           IF r.i = r.total_tries - 1
           THEN [r1 EXCEPT !.status = "raised", !.exc = [kind |-> "retryable", call |-> r.calls]]
           ELSE [r1 EXCEPT !.status = "sleeping",
                           !.waits = Append(@, r.wait_time)]

\* `await asyncio.sleep(wait_time)` finishes (lines 44-45, then 36-38):
\* wait_time *= backoff_factor, next iteration, func is called again.
RetrySleepDone(r) ==
    [r EXCEPT !.wait_time = @ * r.backoff_factor,
              !.i = @ + 1,
              !.status = "calling",
              !.calls = @ + 1]

RetryFinished(r) == r.status \in {"returned", "raised"}

\* The decorator of line 52.
chat_completion_create == RetryStart(3, 1, 2)

\* Mutant of chat_post_message: a post is tried four times.
chat_post_message_four_tries == RetryStart(4, 1, 2)

\* The decorator of line 57.
chat_post_message == RetryStart(3, 1, 2)

(***************************************************************************)
(* Strings and JSON values of the model's response.                        *)
(*                                                                         *)
(* A string is a record: ws says whether it carries leading/trailing       *)
(* whitespace, kind what its text is ("empty": no text, "junk": text that  *)
(* is not JSON, "qqq": the literal "???", "scalar": JSON text of a value   *)
(* that is not an object, "object": JSON text of an object), obj the       *)
(* object it denotes.  A Python None where a string may stand is NoneStr.  *)
(* An object carries some of the keys summary, language, body_translated;  *)
(* a key that is missing has the value Absent, and body_translated may be  *)
(* present with the JSON value null.                                       *)
(***************************************************************************)
Absent == "Absent"
Null == "null"

Objects == [summary : {Absent, "S"},
            language : {Absent, "ja", "en"},
            body_translated : {Absent, Null, "T"}]

NoObj == [summary |-> Absent, language |-> Absent, body_translated |-> Absent]

NoneStr == [ws |-> FALSE, kind |-> "None", obj |-> NoObj]
QQQ == [ws |-> FALSE, kind |-> "qqq", obj |-> NoObj]

Strs == [ws : BOOLEAN, kind : {"empty", "junk", "scalar"}, obj : {NoObj}]
        \cup [ws : BOOLEAN, kind : {"object"}, obj : Objects]

\* Truth value of a str-or-None: None and "" are false.
StrTruthy(s) == s # NoneStr /\ ~(s.kind = "empty" /\ ~s.ws)

\* str.strip()
Strip(s) == [s EXCEPT !.ws = FALSE]

\* json.loads(s): whitespace around the document is skipped; text that is
\* not a JSON document raises json.JSONDecodeError.
JsonLoads(s) ==
    IF s.kind \in {"scalar", "object"}
    THEN [raised |-> "none", isdict |-> s.kind = "object", obj |-> s.obj]
    ELSE [raised |-> "JSONDecodeError", isdict |-> FALSE, obj |-> NoObj]

(***************************************************************************)
(* Reply segments.  A segment is what `summary` or `body` holds at line    *)
(* 153: kind "none" is Python's None, the other kinds name the f-string    *)
(* that built the text, val is what was interpolated into it.  The three   *)
(* f-strings have a non-empty constant part, so a segment is truthy        *)
(* exactly when it is not None.                                            *)
(***************************************************************************)
NoSeg == [kind |-> "none", val |-> None]

SegTruthy(seg) == seg.kind # "none"

\* Mutant of format_reply: the translation is rendered whenever
\* body_translated is supplied, whatever the language.
format_reply_any_language(args) ==
    [summary |-> [kind |-> "summary",
                  val |-> IF args.summary = Absent THEN "???" ELSE args.summary],
     body |-> IF args.body_translated # Absent
              THEN [kind |-> "translation", val |-> args.body_translated]
              ELSE NoSeg]

\* format_reply (lines 62-74) on a dict.  args.get("language") is None when
\* the key is missing, and None != "ja".
format_reply(args) ==
    [summary |-> [kind |-> "summary",
                  val |-> IF args.summary = Absent THEN "???" ELSE args.summary],
     body |-> IF args.language # "ja" /\ args.body_translated # Absent
              THEN [kind |-> "translation", val |-> args.body_translated]
              ELSE NoSeg]

\* json.loads followed by format_reply (lines 144-145 and 148-149): a value
\* that is not a dict has no .get, format_reply raises AttributeError.
ParseAndFormat(s) ==
    LET v == JsonLoads(s) IN
    IF v.raised # "none"
    THEN [raised |-> v.raised, summary |-> NoSeg, body |-> NoSeg]
    ELSE IF ~v.isdict
    THEN [raised |-> "AttributeError", summary |-> NoSeg, body |-> NoSeg]
    ELSE [raised |-> "none"] @@ format_reply(v.obj)

FunctionName == "reply_processed_text"

NoCall == [present |-> FALSE, name |-> None, arguments |-> NoneStr]

FunctionCalls == [present : {TRUE}, name : {FunctionName, "other_function"},
                  arguments : Strs]

\* completion.choices[0].message
Messages == [function_call : {NoCall} \cup FunctionCalls,
             content : {NoneStr} \cup Strs]

\* Mutant of Normalize: the diagnostic of the except branch is assigned to
\* summary instead of body.
NormalizeDiagAsSummary(message) ==
    LET content == Strip(IF StrTruthy(message.content) THEN message.content ELSE QQQ)
        fmt == ParseAndFormat(IF message.function_call.present
                              THEN message.function_call.arguments ELSE content)
    IN  IF message.function_call.present /\ message.function_call.name # FunctionName
        THEN [raised |-> "none", path |-> "none", content |-> content,
              summary |-> NoSeg, body |-> NoSeg]
        ELSE IF fmt.raised = "none"
        THEN [raised |-> "none",
              path |-> IF message.function_call.present THEN "function" ELSE "inline",
              content |-> content, summary |-> fmt.summary, body |-> fmt.body]
        ELSE IF message.function_call.present
        THEN [raised |-> fmt.raised, path |-> "function", content |-> content,
              summary |-> NoSeg, body |-> NoSeg]
        ELSE [raised |-> "none", path |-> "parse_failure", content |-> content,
              summary |-> [kind |-> "diagnostic", val |-> content],
              body |-> NoSeg]

\* summerize_text, lines 138-151: from the message to the values of summary
\* and body at line 153, or to the exception that leaves summerize_text.
\* path names the branch taken: "function" (142-145), "inline" (147-149
\* without exception), "parse_failure" (150-151), "none" (a function_call
\* of another name: neither 144-145 nor the else branch runs).
Normalize(message) ==
    LET content == Strip(IF StrTruthy(message.content) THEN message.content ELSE QQQ)
        fmt == ParseAndFormat(IF message.function_call.present
                              THEN message.function_call.arguments ELSE content)
    IN  IF message.function_call.present /\ message.function_call.name # FunctionName
        THEN [raised |-> "none", path |-> "none", content |-> content,
              summary |-> NoSeg, body |-> NoSeg]
        ELSE IF fmt.raised = "none"
        THEN [raised |-> "none",
              path |-> IF message.function_call.present THEN "function" ELSE "inline",
              content |-> content, summary |-> fmt.summary, body |-> fmt.body]
        ELSE IF message.function_call.present
        THEN [raised |-> fmt.raised, path |-> "function", content |-> content,
              summary |-> NoSeg, body |-> NoSeg]
        ELSE [raised |-> "none", path |-> "parse_failure", content |-> content,
              summary |-> NoSeg,
              body |-> [kind |-> "diagnostic", val |-> content]]

(***************************************************************************)
(* The rewrite of redirector URLs in process_link (lines 175-186).         *)
(*                                                                         *)
(* A URL is its text before the query (base), whether a "?" follows        *)
(* (qmark), and the items of the query between "&"s.  An item has a name   *)
(* and a value: NoEq is an item without "=", Blank an empty value, the     *)
(* other values are text, percent-encoded or not.                          *)
(***************************************************************************)
MaxQuery == 2

RedirectorBase == "https://www.google.com/url"
NoEq == "<no =>"
Blank == ""

QueryValues == {NoEq, Blank, "https%3A%2F%2Fa.example%2F", "https://b.example/"}
QueryItems == [name : {"url", "q"}, value : QueryValues]

PlainUrl(text) == [base |-> text, qmark |-> FALSE, query |-> << >>]
NoUrl == PlainUrl("<none>")

\* urllib.parse.unquote, as parse_qs applies it to a value.
Unquote(v) == IF v = "https%3A%2F%2Fa.example%2F" THEN "https://a.example/" ELSE v

\* url.startswith("https://www.google.com/url?")
StartsWithRedirector(u) == u.base = RedirectorBase /\ u.qmark

\* urllib.parse.parse_qs(query).get(name): the decoded values of the items
\* of that name, in order; items without "=" and blank values are left out
\* (strict_parsing and keep_blank_values are False).  << >> stands for None.
ParseQsGet(query, name) ==
    LET kept == SelectSeq(query, LAMBDA it : it.name = name
                                             /\ it.value \notin {NoEq, Blank})
    IN  [n \in 1..Len(kept) |-> Unquote(kept[n].value)]

\* Mutant of Resolve: the last value of the parameter is taken.
ResolveLast(u) ==
    IF StartsWithRedirector(u)
    THEN LET redirected_url == ParseQsGet(u.query, "url") IN
         IF redirected_url # << >>
         THEN PlainUrl(redirected_url[Len(redirected_url)])
         ELSE u
    ELSE u

\* Lines 175-186: the value of url at line 188.
Resolve(u) ==
    IF StartsWithRedirector(u)
    THEN LET redirected_url == ParseQsGet(u.query, "url") IN
         IF redirected_url # << >> THEN PlainUrl(redirected_url[1]) ELSE u
    ELSE u

(***************************************************************************)
(* processed_ids = TTLCache(maxsize=100, ttl=60) (line 198)                *)
(*                                                                         *)
(* The cache is the sequence of its links, oldest first: each holds a key  *)
(* and the time at which it expires.  The handler only uses                *)
(* `key in cache` and `cache[key] = True`; `in` does not reorder.          *)
(***************************************************************************)
maxsize == 100
ttl == 60

CacheKeys(cache) == {cache[n].key : n \in 1..Len(cache)}

\* Mutant of Contains: the expiry of the link is not looked at.
ContainsNoExpiry(cache, key, t) ==
    \E n \in 1..Len(cache) : cache[n].key = key

\* Mutant of Contains: the membership test always answers False.
ContainsNever(cache, key, t) == FALSE

\* TTLCache.__contains__ at time t: the key has a link that has not expired.
Contains(cache, key, t) ==
    \E n \in 1..Len(cache) : cache[n].key = key /\ t < cache[n].expires

\* TTLCache.expire(t): drop every link with expires <= t.
Expire(cache, t) == SelectSeq(cache, LAMBDA e : t < e.expires)

\* Cache.__setitem__'s `while currsize + 1 > maxsize: popitem()`:
\* popitem removes the oldest link.
RECURSIVE MakeRoom(_)
MakeRoom(cache) ==
    IF Len(cache) + 1 > maxsize THEN MakeRoom(Tail(cache)) ELSE cache

\* TTLCache.__setitem__ at time t: expire, make room if the key is new,
\* then (re)link the key at the young end with expiry t + ttl.
SetItem(cache, key, t) ==
    LET live == Expire(cache, t)
        room == IF key \in CacheKeys(live) THEN live ELSE MakeRoom(live)
    IN  Append(SelectSeq(room, LAMBDA e : e.key # key),
               [key |-> key, expires |-> t + ttl])

\* The keys that popitem threw out of the cache in SetItem(cache, key, t).
Evicted(cache, key, t) ==
    CacheKeys(Expire(cache, t)) \ CacheKeys(SetItem(cache, key, t))

(***************************************************************************)
(* The environment of the event handler.                                   *)
(*                                                                         *)
(* Message keys (channel + "." + event_ts) are numbered in the order of    *)
(* their first delivery; the keys 1..NumKeys may be delivered again.  The  *)
(* clock advances in steps of TickStep seconds up to MaxTime.  A run       *)
(* happens in one of the Environments, which bound what the chat platform  *)
(* and the network do in it:                                               *)
(*   links    the largest number of links of a message,                    *)
(*   faults   whether fetches, model calls and posts may fail,             *)
(*   answers  the answers of the model: any of them, or well-formed ones,  *)
(*   keys     the number of distinct messages,                             *)
(*   linked   the number of keys whose messages carry links and may be     *)
(*            delivered again; the other messages have no links,           *)
(*   inflight the number of handler invocations in progress at a time,     *)
(*   ticks    whether the clock advances,                                  *)
(*   previews whether preview edits are delivered,                         *)
(*   chatter  the number of messages without links in flight at a time,    *)
(*   redeliveries  the number of redeliveries,                             *)
(*   after    the number of distinct messages before the first redelivery, *)
(*   deliveries    the number of deliveries.                               *)
(***************************************************************************)
Handlers == {1, 2}
NumKeys == 2
MaxLinks == 2
TickStep == 30
MaxTime == 90
MaxDeliveries == 3

Url == "https://example.com/page"

\* One message at a time, with links, on a network that fails.
FaultsEnv ==
    [name |-> "faults", links |-> MaxLinks, faults |-> TRUE, answers |-> "any",
     keys |-> 1, linked |-> 1, inflight |-> 2, ticks |-> FALSE,
     previews |-> TRUE, chatter |-> 0, redeliveries |-> 1, after |-> 0,
     deliveries |-> 2]

\* Deliveries and redeliveries that overlap while the clock advances.
RaceEnv ==
    [name |-> "race", links |-> 1, faults |-> FALSE, answers |-> "any",
     keys |-> NumKeys, linked |-> NumKeys, inflight |-> 2, ticks |-> TRUE,
     previews |-> TRUE, chatter |-> 0, redeliveries |-> 1, after |-> 0,
     deliveries |-> MaxDeliveries]

\* One message with a link, then more than maxsize distinct messages without
\* links within one tick, one at a time, then the first message again.
BurstEnv ==
    [name |-> "burst", links |-> 1, faults |-> FALSE, answers |-> "good",
     keys |-> maxsize + NumKeys, linked |-> 1, inflight |-> 2, ticks |-> FALSE,
     previews |-> FALSE, chatter |-> 1, redeliveries |-> 1, after |-> maxsize,
     deliveries |-> maxsize + NumKeys + 1]

Environments == {FaultsEnv, RaceEnv, BurstEnv}

RECURSIVE SeqsUpTo(_, _)
SeqsUpTo(S, n) ==
    IF n = 0 THEN {<< >>}
    ELSE LET shorter == SeqsUpTo(S, n - 1)
         IN  shorter \cup {Append(q, x) : q \in shorter, x \in S}

NoEvent == [key |-> 0, previous_message |-> FALSE, links |-> << >>]

VARIABLES
    env,            \* the environment of this run
    now,            \* the clock read by the TTLCache (time.monotonic)
    processed_ids,  \* the TTLCache of line 198
    pc,             \* per handler invocation: where the coroutine stands
    event,          \* per handler invocation: body["event"]
    idx,            \* per handler invocation: number of the link in progress
    rt,             \* per handler invocation: the retry wrapper in progress
    segs,           \* per handler invocation: message, summary and body
                    \* of summerize_text for the link in progress
    posts,          \* per handler invocation: the chat_post_message calls made
    outcome,        \* per handler invocation: how it ended
    nkeys,          \* number of distinct keys delivered so far
    ndeliv,         \* number of deliveries so far
    lastPass,       \* per key of 1..NumKeys: when it last passed the check
    evicted,        \* keys of 1..NumKeys popped for capacity since they passed
    r,              \* SpecRetry: the wrapper invocation
    message,        \* SpecNorm: completion.choices[0].message
    norm,           \* SpecNorm: what lines 138-151 made of message
    link,           \* SpecResolve: the url argument of process_link
    fetched         \* SpecResolve: the argument of requests.get (188)

hvars == <<pc, event, idx, rt, segs, posts, outcome>>
pure == <<r, message, norm, link, fetched>>
evars == <<env, now, processed_ids, nkeys, ndeliv, lastPass, evicted>>
vars == <<env, now, processed_ids, pc, event, idx, rt, segs, posts, outcome,
          nkeys, ndeliv, lastPass, evicted, r, message, norm, link, fetched>>

NoMessage == [function_call |-> NoCall, content |-> NoneStr]

\* The locals of summerize_text before the completion has arrived.
NoSegs == [normalized |-> FALSE, message |-> NoMessage,
           summary |-> NoSeg, body |-> NoSeg]

NotNormalized ==
    [raised |-> "none", path |-> "pending", content |-> NoneStr,
     summary |-> NoSeg, body |-> NoSeg]

\* The state before any event is delivered.
InitHandler ==
    /\ now = 0
    /\ processed_ids = << >>
    /\ pc = [h \in Handlers |-> "idle"]
    /\ event = [h \in Handlers |-> NoEvent]
    /\ idx = [h \in Handlers |-> 0]
    /\ rt = [h \in Handlers |-> RetryStart(0, 0, 0)]
    /\ segs = [h \in Handlers |-> NoSegs]
    /\ posts = [h \in Handlers |-> << >>]
    /\ outcome = [h \in Handlers |-> "none"]
    /\ nkeys = 0
    /\ ndeliv = 0
    /\ lastPass = [k \in 1..NumKeys |-> -1]
    /\ evicted = {}

Init ==
    /\ env \in Environments
    /\ InitHandler
    /\ r = RetryStart(0, 0, 0)
    /\ message = NoMessage
    /\ norm = NotNormalized
    /\ link = NoUrl
    /\ fetched = NoUrl

\* Mutant of LoopBlocked: the wait between two attempts is a blocking sleep
\* (time.sleep instead of `await asyncio.sleep`).
LoopBlockedBySleep ==
    \E h \in Handlers : pc[h] = "fetch" \/ rt[h].status = "sleeping"

\* requests.get (line 188) does not yield: while a handler is in it, the
\* event loop runs nothing else.
LoopBlocked == \E h \in Handlers : pc[h] = "fetch"

InFlight == {h \in Handlers : pc[h] \notin {"idle", "done"}}

(***************************************************************************)
(* The event handler (lines 201-224), process_link (172-195) and the       *)
(* posting half of summerize_text (153-169).  A coroutine runs from one    *)
(* suspension point to the next in one step.                               *)
(***************************************************************************)

\* The handler invocation h moves on.
Goto(h, p, k, w, sg, ps, out) ==
    /\ pc' = [pc EXCEPT ![h] = p]
    /\ idx' = [idx EXCEPT ![h] = k]
    /\ rt' = [rt EXCEPT ![h] = w]
    /\ segs' = [segs EXCEPT ![h] = sg]
    /\ posts' = [posts EXCEPT ![h] = ps]
    /\ outcome' = [outcome EXCEPT ![h] = out]

\* An exception leaves handle_message_events, or it returns: the
\* invocation is over.
Finish(h, ps, out) == Goto(h, "done", idx[h], rt[h], segs[h], ps, out)

\* The loop of lines 220-224 reaches link number k: after the last link the
\* handler returns, otherwise process_link enters requests.get (188).
NextLink(h, k, ps) ==
    IF k > Len(event[h].links)
    THEN Finish(h, ps, "completed")
    ELSE Goto(h, "fetch", k, rt[h], NoSegs, ps, "none")

\* Mutant of PostCall: every segment is posted with reply_broadcast=True.
PostCallBroadcast(h, seg, broadcast) ==
    [link |-> idx[h], text |-> seg, reply_broadcast |-> TRUE,
     channel |-> event[h].key, thread_ts |-> event[h].key]

\* A chat_post_message call as it is made at 154-161 or 163-169.  The key
\* of the event stands for its channel and for its ts.
PostCall(h, seg, broadcast) ==
    [link |-> idx[h], text |-> seg, reply_broadcast |-> broadcast,
     channel |-> event[h].key, thread_ts |-> event[h].key]

\* Mutant of PostBody: the post of the body is started and not awaited
\* (asyncio.create_task); the loop goes on to the next link at once.
PostBodyNoAwait(h, sg, ps) ==
    IF SegTruthy(sg.body)
    THEN NextLink(h, idx[h] + 1, Append(ps, PostCall(h, sg.body, FALSE)))
    ELSE NextLink(h, idx[h] + 1, ps)

\* Line 162 onward: post the body if there is one, then the link is done.
PostBody(h, sg, ps) ==
    IF SegTruthy(sg.body)
    THEN Goto(h, "post_body", idx[h], chat_post_message, sg,
              Append(ps, PostCall(h, sg.body, FALSE)), "none")
    ELSE NextLink(h, idx[h] + 1, ps)

\* Line 153 onward: post the summary if there is one.
PostSummary(h, sg, ps) ==
    IF SegTruthy(sg.summary)
    THEN Goto(h, "post_summary", idx[h], chat_post_message, sg,
              Append(ps, PostCall(h, sg.summary, TRUE)), "none")
    ELSE PostBody(h, sg, ps)

\* The clock advances.
Tick ==
    /\ env.ticks
    /\ now + TickStep <= MaxTime
    /\ now' = now + TickStep
    /\ UNCHANGED <<env, processed_ids, hvars, nkeys, ndeliv, lastPass, evicted, pure>>

\* The frame of a new invocation in place h; the frames of the invocations
\* that are over are dropped.
Dispatch(f, h, fresh, empty) ==
    [g \in Handlers |-> IF g = h THEN fresh
                        ELSE IF pc[g] = "done" THEN empty ELSE f[g]]

\* The chat platform delivers a message event: Bolt starts
\* handle_message_events, which suspends in `await ack()` (203).  The
\* invocation takes the first free place of Handlers.
Deliver(h) ==
    /\ pc[h] \in {"idle", "done"}
    /\ \A g \in Handlers : g < h => pc[g] \notin {"idle", "done"}
    /\ ~LoopBlocked
    /\ ndeliv < env.deliveries
    /\ Cardinality(InFlight) < env.inflight
    /\ \E k \in (IF nkeys < env.keys THEN {nkeys + 1} ELSE {})
                  \cup {j \in 1..NumKeys : j <= nkeys /\ j <= env.linked} :
       /\ k > env.linked =>
             Cardinality({g \in InFlight : event[g].key > env.linked}) < env.chatter
       /\ k <= nkeys => ndeliv - nkeys < env.redeliveries /\ nkeys > env.after
       /\ \E prev \in (IF env.previews THEN BOOLEAN ELSE {FALSE}),
          ls \in SeqsUpTo({Url}, IF k <= env.linked THEN env.links ELSE 0) :
             /\ event' = Dispatch(event, h, [key |-> k, previous_message |-> prev,
                                              links |-> ls], NoEvent)
             /\ nkeys' = IF k > nkeys THEN k ELSE nkeys
    /\ ndeliv' = ndeliv + 1
    /\ pc' = Dispatch(pc, h, "ack", "idle")
    /\ idx' = Dispatch(idx, h, 0, 0)
    /\ rt' = Dispatch(rt, h, RetryStart(0, 0, 0), RetryStart(0, 0, 0))
    /\ segs' = Dispatch(segs, h, NoSegs, NoSegs)
    /\ posts' = Dispatch(posts, h, << >>, << >>)
    /\ outcome' = Dispatch(outcome, h, "none", "none")
    /\ UNCHANGED <<env, now, processed_ids, lastPass, evicted, pure>>

\* Mutant of AckDone: the dedup check and the marking of the key come
\* before the check for previous_message.
AckDoneMarksPreview(h) ==
    /\ pc[h] = "ack"
    /\ ~LoopBlocked
    /\ LET key == event[h].key IN
       IF Contains(processed_ids, key, now)
       THEN /\ Finish(h, posts[h], "duplicate")
            /\ UNCHANGED <<processed_ids, lastPass, evicted>>
       ELSE /\ processed_ids' = SetItem(processed_ids, key, now)
            /\ lastPass' = [k \in 1..NumKeys |->
                              IF k = key THEN now ELSE lastPass[k]]
            /\ evicted' = ((evicted \cup Evicted(processed_ids, key, now))
                            \cap (1..NumKeys)) \ {key}
            /\ IF event[h].previous_message
               THEN Finish(h, posts[h], "preview")
               ELSE NextLink(h, 1, posts[h])
    /\ UNCHANGED <<env, now, event, nkeys, ndeliv, pure>>

\* `await ack()` is over: lines 205-224 run up to requests.get of the first
\* link, or to the end of the handler.
AckDone(h) ==
    /\ pc[h] = "ack"
    /\ ~LoopBlocked
    /\ LET key == event[h].key IN
       IF event[h].previous_message
       THEN /\ Finish(h, posts[h], "preview")
            /\ UNCHANGED <<processed_ids, lastPass, evicted>>
       ELSE IF Contains(processed_ids, key, now)
       THEN /\ Finish(h, posts[h], "duplicate")
            /\ UNCHANGED <<processed_ids, lastPass, evicted>>
       ELSE /\ processed_ids' = SetItem(processed_ids, key, now)
            /\ lastPass' = [k \in 1..NumKeys |->
                              IF k = key THEN now ELSE lastPass[k]]
            /\ evicted' = ((evicted \cup Evicted(processed_ids, key, now))
                            \cap (1..NumKeys)) \ {key}
            /\ NextLink(h, 1, posts[h])
    /\ UNCHANGED <<env, now, event, nkeys, ndeliv, pure>>

\* Mutant of FetchDone: a failed fetch takes the key of the event out of
\* processed_ids, so that a redelivery is processed again.
FetchDoneForgets(h) ==
    /\ pc[h] = "fetch"
    /\ \E ok \in (IF env.faults THEN BOOLEAN ELSE {TRUE}) :
          IF ok
          THEN /\ Goto(h, "model", idx[h], chat_completion_create, segs[h],
                       posts[h], "none")
               /\ UNCHANGED processed_ids
          ELSE /\ Finish(h, posts[h], "fetch_failed")
               /\ processed_ids' =
                     SelectSeq(processed_ids, LAMBDA e : e.key # event[h].key)
    /\ UNCHANGED <<env, now, event, nkeys, ndeliv, lastPass, evicted, pure>>

\* requests.get / raise_for_status (188-189) is over; on success the text
\* is extracted and summerize_text awaits chat_completion_create (106).
FetchDone(h) ==
    /\ pc[h] = "fetch"
    /\ \E ok \in (IF env.faults THEN BOOLEAN ELSE {TRUE}) :
          IF ok
          THEN Goto(h, "model", idx[h], chat_completion_create, segs[h],
                    posts[h], "none")
          ELSE Finish(h, posts[h], "fetch_failed")
    /\ UNCHANGED <<env, now, processed_ids, event, nkeys, ndeliv, lastPass, evicted, pure>>

\* The messages the model answers with in the handler's runs.
PipelineMessages ==
    {m \in Messages :
        /\ m.function_call.present =>
              /\ m.content = NoneStr
              /\ m.function_call.arguments.ws = FALSE
              /\ m.function_call.arguments.kind \in {"junk", "object"}
              /\ m.function_call.arguments.obj.summary # Absent
              /\ m.function_call.arguments.obj.language # Absent
              /\ m.function_call.arguments.obj.body_translated = "T"
        /\ ~m.function_call.present =>
              /\ m.content # NoneStr
              /\ m.content.kind \in {"junk", "object"}
              /\ m.content.kind = "junk" => m.content.ws
              /\ m.content.kind = "object" =>
                    /\ ~m.content.ws
                    /\ m.content.obj = [summary |-> "S", language |-> "en",
                                        body_translated |-> "T"]}

\* The well-formed answer: a function call in a foreign language.
GoodMessages ==
    {m \in PipelineMessages :
        /\ m.function_call.present
        /\ m.function_call.name = FunctionName
        /\ m.function_call.arguments.kind = "object"
        /\ m.function_call.arguments.obj.summary = "S"
        /\ m.function_call.arguments.obj.language = "en"}

Answers == IF env.answers = "good" THEN GoodMessages ELSE PipelineMessages

CallOutcomes == IF env.faults THEN Outcomes ELSE {"ok"}

\* One attempt of the model call is over (wrapper of line 52); when it
\* returns, lines 136-153 run.
ModelDone(h) ==
    /\ pc[h] = "model"
    /\ rt[h].status = "calling"
    /\ ~LoopBlocked
    /\ \E o \in CallOutcomes :
          LET w == RetryAttemptDone(rt[h], o) IN
          CASE w.status = "sleeping" ->
                 Goto(h, "model", idx[h], w, segs[h], posts[h], "none")
            [] w.status = "raised" ->
                 Goto(h, "done", idx[h], w, segs[h], posts[h], "model_failed")
            [] w.status = "returned" ->
                 \E m \in Answers :
                    LET n == Normalize(m)
                        sg == [normalized |-> TRUE, message |-> m,
                               summary |-> n.summary, body |-> n.body]
                    IN  IF n.raised # "none"
                        THEN Goto(h, "done", idx[h], w, sg, posts[h],
                                  "normalize_failed")
                        ELSE PostSummary(h, sg, posts[h])
    /\ UNCHANGED <<env, now, processed_ids, event, nkeys, ndeliv, lastPass, evicted, pure>>

\* One attempt of the summary post is over (wrapper of line 57, call of
\* 154-161).
PostSummaryDone(h) ==
    /\ pc[h] = "post_summary"
    /\ rt[h].status = "calling"
    /\ ~LoopBlocked
    /\ \E o \in CallOutcomes :
          LET w == RetryAttemptDone(rt[h], o) IN
          CASE w.status = "sleeping" ->
                 Goto(h, "post_summary", idx[h], w, segs[h], posts[h], "none")
            [] w.status = "raised" ->
                 Goto(h, "done", idx[h], w, segs[h], posts[h],
                      "post_summary_failed")
            [] w.status = "returned" ->
                 PostBody(h, segs[h], posts[h])
    /\ UNCHANGED <<env, now, processed_ids, event, nkeys, ndeliv, lastPass, evicted, pure>>

\* One attempt of the body post is over (wrapper of line 57, call of
\* 163-169); when it returns, process_link returns to the loop of 220-224.
PostBodyDone(h) ==
    /\ pc[h] = "post_body"
    /\ rt[h].status = "calling"
    /\ ~LoopBlocked
    /\ \E o \in CallOutcomes :
          LET w == RetryAttemptDone(rt[h], o) IN
          CASE w.status = "sleeping" ->
                 Goto(h, "post_body", idx[h], w, segs[h], posts[h], "none")
            [] w.status = "raised" ->
                 Goto(h, "done", idx[h], w, segs[h], posts[h],
                      "post_body_failed")
            [] w.status = "returned" ->
                 NextLink(h, idx[h] + 1, posts[h])
    /\ UNCHANGED <<env, now, processed_ids, event, nkeys, ndeliv, lastPass, evicted, pure>>

\* `await asyncio.sleep(wait_time)` of a wrapper is over (44-45): the
\* wrapped call is made again.
BackoffDone(h) ==
    /\ pc[h] \in {"model", "post_summary", "post_body"}
    /\ rt[h].status = "sleeping"
    /\ ~LoopBlocked
    /\ rt' = [rt EXCEPT ![h] = RetrySleepDone(rt[h])]
    /\ UNCHANGED <<env, now, processed_ids, pc, event, idx, segs, posts, outcome,
                   nkeys, ndeliv, lastPass, evicted, pure>>

Next ==
    \/ Tick
    \/ \E h \in Handlers : Deliver(h)
    \/ \E h \in Handlers : AckDone(h)
    \/ \E h \in Handlers : FetchDone(h)
    \/ \E h \in Handlers : ModelDone(h)
    \/ \E h \in Handlers : PostSummaryDone(h)
    \/ \E h \in Handlers : PostBodyDone(h)
    \/ \E h \in Handlers : BackoffDone(h)

Spec == Init /\ [][Next]_vars

(***************************************************************************)
(* The handler under a fair scheduler: the event loop resumes every        *)
(* coroutine that is ready, and every awaited call ends (the fetch has     *)
(* timeout=60, the clients of the model and of the chat platform time out, *)
(* asyncio.sleep returns).                                                 *)
(***************************************************************************)
Fairness ==
    \A h \in Handlers :
       /\ WF_vars(AckDone(h))
       /\ WF_vars(FetchDone(h))
       /\ WF_vars(ModelDone(h))
       /\ WF_vars(PostSummaryDone(h))
       /\ WF_vars(PostBodyDone(h))
       /\ WF_vars(BackoffDone(h))

\* The fair runs are those of the environment with faults, in which the
\* clock stands still.
InitFair == Init /\ env = FaultsEnv

NextFair ==
    \/ \E h \in Handlers : Deliver(h)
    \/ \E h \in Handlers : AckDone(h)
    \/ \E h \in Handlers : FetchDone(h)
    \/ \E h \in Handlers : ModelDone(h)
    \/ \E h \in Handlers : PostSummaryDone(h)
    \/ \E h \in Handlers : PostBodyDone(h)
    \/ \E h \in Handlers : BackoffDone(h)

FairSpec == InitFair /\ [][NextFair]_vars /\ Fairness

TypeOK ==
    /\ now \in 0..MaxTime
    /\ Len(processed_ids) <= maxsize
    /\ \A h \in Handlers : idx[h] <= Len(event[h].links)

(***************************************************************************)
(* SpecRetry: one invocation of a wrapper made by                          *)
(* retry(exceptions, total_tries, initial_wait, backoff_factor) around a   *)
(* function whose calls end in any of Outcomes.                            *)
(***************************************************************************)
InitRetry ==
    /\ env = FaultsEnv
    /\ InitHandler
    /\ r \in {RetryStart(n, w, f) :
                n \in 1..MaxTries, w \in 1..MaxWait, f \in 1..MaxFactor}
    /\ message = NoMessage
    /\ norm = NotNormalized
    /\ link = NoUrl
    /\ fetched = NoUrl

\* `await func(*args, **kwargs)` is over.
RetryAttempt ==
    /\ r.status = "calling"
    /\ \E o \in Outcomes : r' = RetryAttemptDone(r, o)
    /\ UNCHANGED <<evars, hvars, message, norm, link, fetched>>

\* `await asyncio.sleep(wait_time)` is over.
RetryBackoff ==
    /\ r.status = "sleeping"
    /\ r' = RetrySleepDone(r)
    /\ UNCHANGED <<evars, hvars, message, norm, link, fetched>>

NextRetry == RetryAttempt \/ RetryBackoff

SpecRetry == InitRetry /\ [][NextRetry]_vars

(***************************************************************************)
(* SpecNorm: lines 138-151 of summerize_text applied to any message.       *)
(***************************************************************************)
InitNorm ==
    /\ env = FaultsEnv
    /\ InitHandler
    /\ r = RetryStart(0, 0, 0)
    /\ message \in Messages
    /\ norm = NotNormalized
    /\ link = NoUrl
    /\ fetched = NoUrl

NormalizeMessage ==
    /\ norm.path = "pending"
    /\ norm' = Normalize(message)
    /\ UNCHANGED <<evars, hvars, r, message, link, fetched>>

NextNorm == NormalizeMessage

SpecNorm == InitNorm /\ [][NextNorm]_vars

(***************************************************************************)
(* SpecResolve: lines 173-188 of process_link applied to any URL.          *)
(***************************************************************************)
Urls ==
    {PlainUrl(b) : b \in {RedirectorBase, "https://example.com/page"}}
    \cup [base : {RedirectorBase, "https://example.com/page"},
          qmark : {TRUE},
          query : SeqsUpTo(QueryItems, MaxQuery)]

InitResolve ==
    /\ env = FaultsEnv
    /\ InitHandler
    /\ r = RetryStart(0, 0, 0)
    /\ message = NoMessage
    /\ norm = NotNormalized
    /\ link \in Urls
    /\ fetched = NoUrl

ResolveAndFetch ==
    /\ fetched = NoUrl
    /\ fetched' = Resolve(link)
    /\ UNCHANGED <<evars, hvars, r, message, norm, link>>

NextResolve == ResolveAndFetch

SpecResolve == InitResolve /\ [][NextResolve]_vars

(***************************************************************************)
(* Claims about retry, checked under SpecRetry.                            *)
(***************************************************************************)
AllRetryable(w) == \A n \in 1..Len(w.outcomes) : w.outcomes[n] = "retryable"

\* C4: a wrapped function whose every call fails with a retryable
\* exception is called exactly total_tries times, then the exception of the
\* last call leaves the wrapper; there is one wait between two consecutive
\* calls and none after the last, the k-th wait is
\* initial_wait * backoff_factor^(k-1), and the waits never decrease.
C4_ExhaustedRetries ==
    AllRetryable(r) =>
      /\ r.calls <= r.total_tries
      /\ r.status # "returned"
      /\ r.status = "raised" <=> Len(r.outcomes) = r.total_tries
      /\ r.status = "raised" =>
            /\ r.calls = r.total_tries
            /\ r.exc = [kind |-> "retryable", call |-> r.total_tries]
            /\ Len(r.waits) = r.total_tries - 1
      /\ Len(r.waits) = IF r.status = "sleeping" THEN r.calls ELSE r.calls - 1
      /\ \A k \in 1..Len(r.waits) :
            r.waits[k] = r.initial_wait * Pow(r.backoff_factor, k - 1)
      /\ \A k \in 1..(Len(r.waits) - 1) : r.waits[k] <= r.waits[k + 1]

\* C4 happens: three or more attempts, all failed, with growing waits.
C4_Witness ==
    /\ r.status = "raised"
    /\ AllRetryable(r)
    /\ r.total_tries >= 3
    /\ r.backoff_factor >= 2
    /\ Len(r.waits) = r.total_tries - 1

\* C5: an exception that is not of the retryable kinds leaves the wrapper
\* at once: it is the outcome of the last call made, no wait follows it,
\* and when it is the first call's, the function was called once.
C5_NonRetryablePropagates ==
    \A n \in 1..Len(r.outcomes) :
       r.outcomes[n] = "other" =>
          /\ n = Len(r.outcomes)
          /\ r.status = "raised"
          /\ r.exc = [kind |-> "other", call |-> n]
          /\ r.calls = n
          /\ Len(r.waits) = n - 1

\* C5 happens: on the first attempt, with attempts left.
C5_Witness ==
    /\ r.outcomes = <<"other">>
    /\ r.status = "raised"
    /\ r.calls = 1
    /\ r.total_tries > 1

\* C18: when the k-th call is the first to succeed, after k-1 retryable
\* failures, the wrapper returns the result of that call; the function has
\* been called k times with k-1 waits, and nothing follows the success.
C18_SuccessOnKthAttempt ==
    \A k \in 1..Len(r.outcomes) :
       r.outcomes[k] = "ok" =>
          /\ k = Len(r.outcomes)
          /\ k <= r.total_tries
          /\ \A j \in 1..(k - 1) : r.outcomes[j] = "retryable"
          /\ r.status = "returned"
          /\ r.result = [of_call |-> k]
          /\ r.exc = NoExc
          /\ r.calls = k
          /\ Len(r.waits) = k - 1

\* C18 happens: success on the third attempt, after two waits.
C18_Witness ==
    /\ r.outcomes = <<"retryable", "retryable", "ok">>
    /\ r.status = "returned"
    /\ r.calls = 3
    /\ Len(r.waits) = 2

(***************************************************************************)
(* Claims about the normalization of the response, checked under SpecNorm. *)
(***************************************************************************)

\* The content local of line 139.
ContentOf(m) == Strip(IF StrTruthy(m.content) THEN m.content ELSE QQQ)

\* The text that the branch taken hands to json.loads.
PayloadOf(m) ==
    IF m.function_call.present THEN m.function_call.arguments ELSE ContentOf(m)

Normalized == norm.path # "pending"

Produced(n) == SegTruthy(n.summary) \/ SegTruthy(n.body)

\* C6: for every response exactly one of the three paths runs, the
\* function-invocation path when function_call is present, otherwise the
\* inline-JSON path or, when its parse raises, the parse-failure path; and
\* the path that runs produces a summary or a body.
C6_ExactlyOnePath ==
    Normalized =>
      /\ norm.path \in {"function", "inline", "parse_failure"}
      /\ norm.path = "function" <=> message.function_call.present
      /\ norm.raised = "none" => Produced(norm)

\* C7: lines 138-151 raise for no response, whatever its shape.
C7_NeverRaises ==
    Normalized => norm.raised = "none"

\* C8: on the function-invocation path and on the inline-JSON path, when
\* they succeed, there is a summary segment, and there is a translation
\* segment exactly when language is not "ja" and body_translated was
\* supplied; the translation segment carries body_translated.
C8_TranslationIffForeign ==
    (Normalized /\ norm.raised = "none" /\ norm.path \in {"function", "inline"}) =>
      LET args == PayloadOf(message).obj IN
      /\ norm.summary.kind = "summary"
      /\ norm.summary.val = (IF args.summary = Absent THEN "???" ELSE args.summary)
      /\ SegTruthy(norm.body) <=>
            (args.language # "ja" /\ args.body_translated # Absent)
      /\ SegTruthy(norm.body) =>
            /\ norm.body.kind = "translation"
            /\ norm.body.val = args.body_translated

\* C8 happens: a function call with {summary, language: "en",
\* body_translated} gives both segments.
C8_Witness ==
    /\ Normalized
    /\ norm.path = "function"
    /\ message.function_call.arguments.obj =
          [summary |-> "S", language |-> "en", body_translated |-> "T"]
    /\ norm.summary = [kind |-> "summary", val |-> "S"]
    /\ norm.body = [kind |-> "translation", val |-> "T"]

(***************************************************************************)
(* Claims about the event handler, checked under Spec.                     *)
(***************************************************************************)
KeyOf(h) == event[h].key

\* The step in which handler h gets past `await ack()`.
AckStep(h) == pc[h] = "ack" /\ pc'[h] # "ack"

\* The step in which handler h passes the test of line 213 and marks its key.
PassStep(h) == AckStep(h) /\ outcome'[h] \notin {"preview", "duplicate"}

\* The key k was marked less than ttl ago.
MarkedWithinTTL(k) ==
    k \in 1..NumKeys /\ lastPass[k] >= 0 /\ now - lastPass[k] < ttl

\* The key k was marked, and ttl or more has elapsed since.
MarkedTTLAgo(k) ==
    k \in 1..NumKeys /\ lastPass[k] >= 0 /\ now - lastPass[k] >= ttl

\* C1 as stated: of two deliveries with the same key within the TTL window
\* at most one passes the dedup check.
C1_AtMostOnePass ==
    [][\A h \in Handlers : PassStep(h) => ~MarkedWithinTTL(KeyOf(h))]_vars

\* C1 amended: of two deliveries with the same key within the TTL window at
\* most one passes the dedup check, unless the key was popped from the
\* cache for capacity in between; test and insertion are one step.
C1_AtMostOnePassUnlessEvicted ==
    [][\A h \in Handlers :
          (PassStep(h) /\ MarkedWithinTTL(KeyOf(h))) => KeyOf(h) \in evicted]_vars

\* C1 happens: two deliveries of one key overlap; one passed and is being
\* processed, the other was suppressed within the TTL window.
C1_Witness ==
    \E g, h \in Handlers :
       /\ g # h
       /\ KeyOf(g) = KeyOf(h)
       /\ pc[g] \in {"fetch", "model", "post_summary", "post_body"}
       /\ outcome[h] = "duplicate"
       /\ MarkedWithinTTL(KeyOf(h))

\* C2: a handler that has ended has gone through every link of its event,
\* whatever failed on the way.
C2_LinkFailuresIsolated ==
    \A h \in Handlers :
       (pc[h] = "done" /\ outcome[h] \notin {"preview", "duplicate"}) =>
          idx[h] = Len(event[h].links)

\* C3: when the post of the summary has failed and there is a body segment,
\* the post of the body has been attempted.
C3_SegmentsIndependent ==
    \A h \in Handlers :
       (outcome[h] = "post_summary_failed" /\ SegTruthy(segs[h].body)) =>
          \E n \in 1..Len(posts[h]) :
             /\ posts[h][n].link = idx[h]
             /\ posts[h][n].text = segs[h].body

\* The chat_post_message calls that handler h made for its current link.
LinkPosts(h) == SelectSeq(posts[h], LAMBDA p : p.link = idx[h])

\* C9: when the response has no function call and its content does not
\* parse as the structured shape, there is no summary segment, the body is
\* the diagnostic around the content (as line 139 holds it), no broadcast
\* post is made for the link, and exactly one chat_post_message call is made
\* for it: a plain thread reply with the diagnostic.
C9_ParseFailureIsPosted ==
    \A h \in Handlers :
       LET m == segs[h].message IN
       (/\ segs[h].normalized
        /\ ~m.function_call.present
        /\ ParseAndFormat(ContentOf(m)).raised # "none") =>
          /\ ~SegTruthy(segs[h].summary)
          /\ segs[h].body = [kind |-> "diagnostic", val |-> ContentOf(m)]
          /\ Len(LinkPosts(h)) = 1
          /\ LinkPosts(h)[1].text = segs[h].body
          /\ ~LinkPosts(h)[1].reply_broadcast
          /\ LinkPosts(h)[1].channel = KeyOf(h)
          /\ LinkPosts(h)[1].thread_ts = KeyOf(h)

\* C9 happens: unparsable inline text was answered with the diagnostic.
C9_Witness ==
    \E h \in Handlers :
       /\ segs[h].normalized
       /\ ~segs[h].message.function_call.present
       /\ segs[h].message.content.kind = "junk"
       /\ pc[h] = "done"
       /\ outcome[h] = "completed"
       /\ Len(posts[h]) = 1
       /\ posts[h][1].text.kind = "diagnostic"

\* C10: a delivery whose key was marked ttl or more ago passes the check,
\* marks the key with expiry now + ttl, and goes on to its links.
C10_EligibleAfterTTL ==
    [][\A h \in Handlers :
          (AckStep(h) /\ ~event[h].previous_message /\ MarkedTTLAgo(KeyOf(h))) =>
             /\ outcome'[h] # "duplicate"
             /\ \E n \in 1..Len(processed_ids') :
                   processed_ids'[n] = [key |-> KeyOf(h), expires |-> now + ttl]
             /\ lastPass'[KeyOf(h)] = now
             /\ IF event[h].links = << >>
                THEN outcome'[h] = "completed"
                ELSE pc'[h] = "fetch" /\ idx'[h] = 1]_vars

\* C10 happens: the first delivery of a key is still being processed when,
\* ttl later, the second delivery of the key passes.
C10_Witness ==
    \E g, h \in Handlers :
       /\ g # h
       /\ KeyOf(g) = KeyOf(h)
       /\ pc[g] \in {"model", "post_summary", "post_body"}
       /\ pc[h] = "fetch"
       /\ now >= ttl
       /\ lastPass[KeyOf(h)] = now

(***************************************************************************)
(* Claims about the link resolver, checked under SpecResolve.              *)
(***************************************************************************)

\* Item n of the query of u is the first one that gives the parameter url
\* a value.
FirstUrlValueAt(u, n) ==
    /\ n \in 1..Len(u.query)
    /\ u.query[n].name = "url"
    /\ u.query[n].value \notin {NoEq, Blank}
    /\ \A j \in 1..(n - 1) :
          u.query[j].name = "url" => u.query[j].value \in {NoEq, Blank}

\* C17: when the URL starts with the redirector prefix and its query gives
\* the parameter url a value, the first such value, decoded, is what
\* requests.get is called with; for every other URL requests.get is called
\* with the URL as it came.
C17_ResolverFirstUrlValue ==
    fetched # NoUrl =>
       IF StartsWithRedirector(link) /\ \E n \in 1..Len(link.query) : FirstUrlValueAt(link, n)
       THEN \A n \in 1..Len(link.query) :
               FirstUrlValueAt(link, n) =>
                  fetched = PlainUrl(Unquote(link.query[n].value))
       ELSE fetched = link

\* C17 happens: a redirector URL with two values of url, the first of them
\* percent-encoded, is fetched at the decoded first value.
C17_Witness ==
    /\ link = [base |-> RedirectorBase, qmark |-> TRUE,
               query |-> <<[name |-> "url", value |-> "https%3A%2F%2Fa.example%2F"],
                           [name |-> "url", value |-> "https://b.example/"]>>]
    /\ fetched = PlainUrl("https://a.example/")

\* Handler h is past the dedup check and inside the processing of a link.
InPipeline(h) == pc[h] \in {"fetch", "model", "post_summary", "post_body"}

\* C11: the key of every event that is being processed and was marked less
\* than ttl ago is still in processed_ids, so that a duplicate of it is
\* suppressed: a capacity eviction never removes it.
C11_InFlightKeyKept ==
    \A h \in Handlers :
       (InPipeline(h) /\ MarkedWithinTTL(KeyOf(h))) =>
          Contains(processed_ids, KeyOf(h), now)

\* C12: while a handler is inside a network-bound call (page fetch, model
\* call or post), another handler that waits behind `await ack()` can take
\* its step: every network-bound call is a suspension point.
C12_NetworkCallsYield ==
    \A g, h \in Handlers :
       (g # h /\ InPipeline(g) /\ pc[h] = "ack") => ENABLED AckDone(h)

\* Handler g waits in the backoff sleep of a retry wrapper.
Sleeping(g) ==
    pc[g] \in {"model", "post_summary", "post_body"} /\ rt[g].status = "sleeping"

\* C13: while a handler waits in a retry backoff and no handler is inside a
\* page fetch, every other handler can take the step it is waiting for: it
\* gets past `await ack()`, or the attempt it awaits ends, or its own backoff
\* ends.
C13_BackoffYields ==
    \A g, h \in Handlers :
       (g # h /\ Sleeping(g) /\ \A f \in Handlers : pc[f] # "fetch") =>
          /\ pc[h] = "ack" => ENABLED AckDone(h)
          /\ (pc[h] = "model" /\ rt[h].status = "calling") => ENABLED ModelDone(h)
          /\ (pc[h] = "post_summary" /\ rt[h].status = "calling") =>
                ENABLED PostSummaryDone(h)
          /\ (pc[h] = "post_body" /\ rt[h].status = "calling") =>
                ENABLED PostBodyDone(h)
          /\ Sleeping(h) => ENABLED BackoffDone(h)

\* C13 happens: one handler waits in a backoff while another one waits
\* behind `await ack()`.
C13_Witness ==
    \E g, h \in Handlers : g # h /\ Sleeping(g) /\ pc[h] = "ack"

\* The step in which handler h starts a chat_post_message call.
PostStarts(h) == Len(posts'[h]) > Len(posts[h])

\* C14: every post that a handler starts goes to the channel and the thread
\* of its event; it carries the broadcast flag exactly when it is the summary
\* segment; the summary is the first post of its link; the body (translation
\* or diagnostic) is posted without the flag, after at most the summary, and
\* it starts in the step in which the awaited summary post has ended.
C14_SummaryBroadcastBodyPlain ==
    [][\A h \in Handlers :
          PostStarts(h) =>
             LET old == posts[h]
                 p == posts'[h][Len(posts'[h])]
                 before == SelectSeq(old, LAMBDA q : q.link = p.link)
             IN  /\ posts'[h] = Append(old, p)
                 /\ p.link = idx'[h]
                 /\ p.channel = event'[h].key
                 /\ p.thread_ts = event'[h].key
                 /\ p.reply_broadcast <=> p.text.kind = "summary"
                 /\ p.reply_broadcast => before = << >>
                 /\ ~p.reply_broadcast =>
                       /\ p.text.kind \in {"translation", "diagnostic"}
                       /\ \/ before = << >> /\ pc[h] = "model"
                          \/ /\ Len(before) = 1
                             /\ before[1].reply_broadcast
                             /\ pc[h] = "post_summary"
                             /\ rt[h].status = "calling"]_vars

\* C14 happens: a handler has posted the summary of a link with the flag and
\* is posting its translation without it.
C14_Witness ==
    \E h \in Handlers :
       /\ pc[h] = "post_body"
       /\ Len(LinkPosts(h)) = 2
       /\ LinkPosts(h)[1].reply_broadcast
       /\ LinkPosts(h)[1].text.kind = "summary"
       /\ ~LinkPosts(h)[2].reply_broadcast
       /\ LinkPosts(h)[2].text.kind = "translation"

\* C15: the handler of an event that carries previous_message returns in
\* the step after `await ack()`: processed_ids is left as it was (the key is
\* neither tested nor marked), and the handler never fetches, calls the
\* model or posts.
C15_PreviewIgnored ==
    /\ [][\A h \in Handlers :
             (AckStep(h) /\ event[h].previous_message) =>
                /\ processed_ids' = processed_ids
                /\ lastPass' = lastPass
                /\ pc'[h] = "done"
                /\ outcome'[h] = "preview"]_vars
    /\ [](\A h \in Handlers :
             event[h].previous_message =>
                /\ ~InPipeline(h)
                /\ idx[h] = 0
                /\ posts[h] = << >>
                /\ ~segs[h].normalized)

\* C15 happens: a preview edit of a key has been ignored, the key was not
\* marked by it, and the original post with the same key is being processed.
C15_Witness ==
    \E g, h \in Handlers :
       /\ outcome[h] = "preview"
       /\ event[h].previous_message
       /\ ~event[g].previous_message
       /\ KeyOf(g) = KeyOf(h)
       /\ InPipeline(g)

\* The processing of the event with key k is over or has not begun.
NotInFlight(k) == \A h \in Handlers : InPipeline(h) => KeyOf(h) # k

\* The outcomes of a handler whose processing failed.
Failed ==
    {"fetch_failed", "model_failed", "normalize_failed", "post_summary_failed",
     "post_body_failed"}

\* C16 as stated: a key that was marked less than ttl ago, and whose event
\* is not being processed any more, is still marked.
C16_MarkedUntilTTL ==
    \A k \in 1..NumKeys :
       (MarkedWithinTTL(k) /\ NotInFlight(k)) => Contains(processed_ids, k, now)

\* C16 amended: the key is in processed_ids when the handler enters the
\* processing of its first link; processed_ids changes only in the step in
\* which a handler passes the dedup check, so that no outcome of the
\* processing removes a key; and a key marked less than ttl ago is still
\* marked unless it was popped for capacity.
C16_MarkedUntilTTLUnlessEvicted ==
    /\ [][/\ \A h \in Handlers :
                (AckStep(h) /\ outcome'[h] \notin {"preview", "duplicate"}) =>
                   Contains(processed_ids', KeyOf(h), now)
          /\ processed_ids' # processed_ids => \E h \in Handlers : PassStep(h)]_vars
    /\ [](\A k \in 1..NumKeys :
             (MarkedWithinTTL(k) /\ k \notin evicted) =>
                Contains(processed_ids, k, now))

\* C16 happens: the processing of an event has failed and a redelivery of
\* it, checked after the failure, has been suppressed within the TTL window.
C16_Witness ==
    \E g, h \in Handlers :
       /\ outcome[g] \in Failed
       /\ outcome[h] = "duplicate"
       /\ KeyOf(g) = KeyOf(h)
       /\ MarkedWithinTTL(KeyOf(g))
       /\ Contains(processed_ids, KeyOf(g), now)

\* The step in which handler h enters the fetch of a link.
FetchStarts(h) ==
    pc'[h] = "fetch" /\ (pc[h] # "fetch" \/ idx'[h] # idx[h])

\* C19: a handler enters the fetch of link k + 1 in the step in which the
\* last awaited call of link k ends, with every segment of link k posted and
\* no call of link k pending, and the first fetch follows the dedup check;
\* the posts of a handler are in link order and none is for a link that has
\* not been reached.
C19_LinksInOrder ==
    /\ [][\A h \in Handlers :
             FetchStarts(h) =>
                /\ idx'[h] = idx[h] + 1
                /\ idx'[h] <= Len(event[h].links)
                /\ posts'[h] = posts[h]
                /\ idx[h] = 0 => pc[h] = "ack"
                /\ idx[h] > 0 =>
                      /\ pc[h] \in {"model", "post_summary", "post_body"}
                      /\ rt[h].status = "calling"
                      /\ pc[h] = "model" => LinkPosts(h) = << >>
                      /\ pc[h] = "post_summary" =>
                            /\ ~SegTruthy(segs[h].body)
                            /\ LinkPosts(h)[Len(LinkPosts(h))].text = segs[h].summary
                      /\ pc[h] = "post_body" =>
                            LinkPosts(h)[Len(LinkPosts(h))].text = segs[h].body]_vars
    /\ [](\A h \in Handlers :
             /\ idx[h] <= Len(event[h].links)
             /\ \A n \in 1..Len(posts[h]) :
                   /\ posts[h][n].link \in 1..idx[h]
                   /\ n > 1 => posts[h][n - 1].link <= posts[h][n].link)

\* C19 happens: a handler has posted both segments of its first link and is
\* posting for its second link.
C19_Witness ==
    \E h \in Handlers :
       /\ idx[h] = 2
       /\ pc[h] = "post_body"
       /\ Len(posts[h]) = 4
       /\ posts[h][1].link = 1
       /\ posts[h][2].link = 1
       /\ posts[h][3].link = 2
       /\ posts[h][4].link = 2

\* The step in which handler h enters a wrapped call.
CallStarts(h) ==
    pc'[h] \in {"model", "post_summary", "post_body"} /\ pc'[h] # pc[h]

\* C20: every invocation of the handler ends; a fetch is attempted once per
\* link (the step that ends it leads to the model call of the same link or
\* out of the handler); every wrapped call starts with fresh counters (3
\* tries, 1 s), makes at most 3 attempts and waits 1 s, then 2 s between
\* them; at most 2 posts are made per link.
C20_BoundedAndTerminates ==
    /\ [](\A h \in Handlers :
             /\ pc[h] \in {"model", "post_summary", "post_body"} =>
                   /\ rt[h].total_tries = 3
                   /\ rt[h].calls \in 1..3
                   /\ rt[h].calls = rt[h].i + 1
                   /\ rt[h].wait_time = Pow(2, rt[h].i)
                   /\ Len(rt[h].outcomes) \in {rt[h].calls - 1, rt[h].calls}
             /\ Len(LinkPosts(h)) <= 2)
    /\ [][\A h \in Handlers :
             /\ CallStarts(h) => rt'[h] = RetryStart(3, 1, 2)
             /\ (pc[h] = "fetch" /\ <<pc[h], idx[h]>>' # <<pc[h], idx[h]>>) =>
                   /\ pc'[h] \in {"model", "done"}
                   /\ idx'[h] = idx[h]]_vars
    /\ \A h \in Handlers : (pc[h] \notin {"idle", "done"}) ~> (pc[h] = "done")

\* C20 happens: a handler has ended in its second link, after the third
\* attempt of the post of the body, having waited 1 s and 2 s.
C20_Witness ==
    \E h \in Handlers :
       /\ pc[h] = "done"
       /\ outcome[h] = "post_body_failed"
       /\ idx[h] = 2
       /\ rt[h].calls = 3
       /\ rt[h].waits = <<1, 2>>
       /\ Len(posts[h]) = 4

====
